---- MODULE Spec2Model ----
(***************************************************************************)
(* A model of libnss (src/libnss/src/interop.rs, src/libnss/src/host.rs):  *)
(* the arena writer CBuffer, the marshaller Host::to_c_hostent, the        *)
(* enumeration cursor Iterator<Host> behind its Mutex, and the exported    *)
(* host entry points.                                                      *)
(*                                                                         *)
(* Memory is modelled byte by byte: a caller's region is a function from   *)
(* addresses to bytes, a pointer stored in it occupies PtrSize bytes       *)
(* (little-endian, as on the x86-64 and aarch64 Linux targets an NSS       *)
(* module is built for; the typed pointer stores of the code are modelled  *)
(* as the byte stores those targets perform at any alignment).             *)
(* A text is the sequence of its UTF-8 bytes.                              *)
(***************************************************************************)
EXTENDS Integers, Sequences, FiniteSets, TLC

----------------------------------------------------------------------------
(* Bounds of the model *)

\* Longest name and longest alias stem drawn for a marshalled record.
MaxTextLen == 1
\* Most aliases of a marshalled record.
MaxAliases == 2
\* Most addresses of a marshalled record.
MaxAddrs == 2
\* Bytes of spare capacity of the roomy buffer handed to the marshaller.
Slack == 3
\* Bytes of the caller's memory that follow the buffer it handed over.
RedZone == 8
\* Address of the first byte of the caller's buffer.
BufAddr == 69640
\* Marshalling passes a caller makes over one buffer.
MaxPasses == 2
\* Most records get_all_entries returns.
MaxEntries == 2
\* Most gethostent_r calls between two opens.
MaxNexts == 3
\* Length of the roomy buffer a thread hands to gethostent_r.
EnumBufLen == 32
\* Lookup calls a caller makes.
MaxCalls == 2
\* Calls a caller makes on one CBuffer.
MaxOps == 3
\* Length of the roomy buffer a caller binds a CBuffer to.
ArenaLen == 32

----------------------------------------------------------------------------
(* Program constants *)

PtrSize == 8
AF_UNSPEC == 0
AF_INET == 2
AF_INET6 == 10

\* NssStatus::to_c
NssStatusToC(status) ==
    CASE status = "TryAgain" -> -2
      [] status = "Unavail" -> -1
      [] status = "NotFound" -> 0
      [] status = "Success" -> 1
      [] status = "Return" -> 2

Range(s) == {s[i] : i \in DOMAIN s}

----------------------------------------------------------------------------
(* Raw memory: libc::memset, libc::memcpy, pointer stores and loads *)

Memset(mem, addr, byte, n) ==
    [a \in DOMAIN mem |-> IF a >= addr /\ a < addr + n THEN byte ELSE mem[a]]

Memcpy(mem, addr, bytes, n) ==
    [a \in DOMAIN mem |-> IF a >= addr /\ a < addr + n THEN bytes[a - addr + 1] ELSE mem[a]]

\* Byte i (1 the least significant) of the value p.
RECURSIVE ByteOf(_, _)
ByteOf(p, i) == IF i = 1 THEN p % 256 ELSE ByteOf(p \div 256, i - 1)

\* The PtrSize bytes of a pointer value, least significant first.
PtrBytes(p) == [i \in 1..PtrSize |-> ByteOf(p, i)]

\* *pos = ptr
StorePtr(mem, addr, p) == Memcpy(mem, addr, PtrBytes(p), PtrSize)

\* The n bytes at addr.
LoadBytes(mem, addr, n) == [i \in 1..n |-> mem[addr + i - 1]]

----------------------------------------------------------------------------
(* Addresses: std::net::Ipv4Addr is a 32-bit value, Ipv6Addr eight 16-bit  *)
(* segments; octets() gives their bytes in network order.  The model draws *)
(* IPv4 addresses below 128.0.0.0 and memory addresses below 2^31, the     *)
(* integers the model checker computes with.                               *)

Ipv4Octets(a) ==
    << a \div 16777216, (a \div 65536) % 256, (a \div 256) % 256, a % 256 >>

Ipv6Octets(a) ==
    [i \in 1..16 |-> IF i % 2 = 1 THEN a[(i + 1) \div 2] \div 256 ELSE a[i \div 2] % 256]

\* Ipv4Addr::from([u8; 4])
Ipv4From(p) == p[1] * 16777216 + p[2] * 65536 + p[3] * 256 + p[4]

\* Ipv6Addr::from([u8; 16])
Ipv6From(p) == [i \in 1..8 |-> p[2 * i - 1] * 256 + p[2 * i]]

\* a.octets() for an address of the given variant
Octets(family, a) == IF family = "V4" THEN Ipv4Octets(a) ELSE Ipv6Octets(a)

----------------------------------------------------------------------------
(* CBuffer.  An execution state x carries the writer (x.buffer), the       *)
(* caller's memory (x.mem), the caller's header (x.hostent), the pointer   *)
(* the last call returned (x.ret) and the panic message, "" while none.    *)

Panicked(x) == x.panic # ""

Panic(x, msg) == [x EXCEPT !.panic = msg]

\* Sequencing: the value of x, computed once, handed to the rest F.
Then(x, F(_)) == CHOOSE r \in {F(v) : v \in {x}} : TRUE

CBufferNew(ptr, len) == [start |-> ptr, pos |-> ptr, free |-> len, len |-> len]

ClearSkipped(x) == x

ClearRewinds(x) ==
    [x EXCEPT !.mem = Memset(@, x.buffer.start, 0, x.buffer.len),
              !.buffer.pos = x.buffer.start, !.buffer.free = x.buffer.len]

Clear(x) ==
    [x EXCEPT !.mem = Memset(@, x.buffer.start, 0, x.buffer.len)]

\* CString::new(string) fails on an interior NUL byte.
HasNul(string) == \E i \in DOMAIN string : string[i] = 0

\* libc::strlen of the C string: the bytes before its first NUL.
StrLen(cstr) ==
    (CHOOSE i \in DOMAIN cstr : cstr[i] = 0 /\ \A j \in 1..(i - 1) : cstr[j] # 0) - 1

LacksCapacityOffByOne(free, need) == free + 1 < need

\* self.free < len: the capacity test of write_str and reserve
LacksCapacity(free, need) == free < need

WriteStr(x, string) ==
    IF Panicked(x) THEN x
    ELSE IF HasNul(string) THEN Panic(x, "Failed to convert string")
    ELSE LET str_start == x.buffer.pos
             cstr == string \o << 0 >>
             len == StrLen(cstr)
         IN  IF LacksCapacity(x.buffer.free, len + 1)
             THEN Panic(x, "Not enough free space in buffer")
             ELSE [x EXCEPT !.mem = Memcpy(@, x.buffer.pos, cstr, len),
                            !.buffer.pos = @ + len + 1,
                            !.buffer.free = @ - (len + 1),
                            !.ret = str_start]

\* len as usize: a negative isize becomes a value of 2^63 or more, which the
\* model stands for by the largest integer it computes with (above every free).
AsUsize(len) == IF len >= 0 THEN len ELSE 2147483647

ReserveKeepsFree(x, len) ==
    IF Panicked(x) THEN x
    ELSE IF LacksCapacity(x.buffer.free, AsUsize(len))
         THEN Panic(x, "Not enough free space in buffer")
         ELSE [x EXCEPT !.buffer.pos = @ + len, !.ret = x.buffer.pos]

Reserve(x, len) ==
    IF Panicked(x) THEN x
    ELSE LET start == x.buffer.pos
         IN  IF LacksCapacity(x.buffer.free, AsUsize(len))
             THEN Panic(x, "Not enough free space in buffer")
             ELSE [x EXCEPT !.buffer.pos = @ + len,
                            !.buffer.free = @ - len,
                            !.ret = start]

\* The pointer slots of an array of count entries and its sentinel.
ArraySlotsNoSentinel(count) == count

ArraySlots(count) == count + 1

\* for s in strings { *pos = self.write_str(s); pos = pos.offset(1) }
RECURSIVE WriteStrsLoop(_, _, _, _)
WriteStrsLoop(x, strings, i, pos) ==
    IF Panicked(x) \/ i > Len(strings) THEN x
    ELSE Then(WriteStr(x, strings[i]), LAMBDA w :
         IF Panicked(w) THEN w
         ELSE Then([w EXCEPT !.mem = StorePtr(@, pos, w.ret)], LAMBDA v :
              WriteStrsLoop(v, strings, i + 1, pos + PtrSize)))

WriteStrs(x, strings) ==
    LET ptr_size == PtrSize
    IN  Then(Reserve(x, ptr_size * ArraySlots(Len(strings))), LAMBDA r :
        IF Panicked(r) THEN r
        ELSE LET vec_start == r.ret
                 pos == vec_start + Len(strings) * ptr_size
             IN  Then(WriteStrsLoop(r, strings, 1, vec_start), LAMBDA l :
                 IF Panicked(l) THEN l
                 ELSE [l EXCEPT !.mem = Memset(@, pos, 0, ptr_size), !.ret = vec_start]))

----------------------------------------------------------------------------
(* Host::to_c_hostent.  A Host is [name, aliases, addresses], addresses    *)
(* being [family |-> "V4" or "V6", addrs |-> the sequence of addresses].   *)

AddrTypeOf(family) == IF family = "V4" THEN AF_INET ELSE AF_INET6

AddrLenAlwaysFour(family) == 4

\* addr_len of the match on self.addresses
AddrLen(family) == IF family = "V4" THEN 4 ELSE 16

\* for a in addrs { ptr = reserve(addr_len); memcpy; *array_pos = ptr; array_pos += 1 }
RECURSIVE AddrLoop(_, _, _, _, _)
AddrLoop(x, addresses, i, array_pos, addr_len) ==
    IF Panicked(x) \/ i > Len(addresses.addrs) THEN x
    ELSE Then(Reserve(x, addr_len), LAMBDA r :
         IF Panicked(r) THEN r
         ELSE LET ptr == r.ret
              IN  Then(Octets(addresses.family, addresses.addrs[i]), LAMBDA o :
                  Then([r EXCEPT !.mem = Memcpy(@, ptr, o, addr_len)], LAMBDA c :
                  Then([c EXCEPT !.mem = StorePtr(@, array_pos, ptr)], LAMBDA v :
                  AddrLoop(v, addresses, i + 1, array_pos + PtrSize, addr_len)))))

ToCHostentBytesFirst(self, x) ==
    Then(WriteStr(x, self.name), LAMBDA x1 :
    IF Panicked(x1) THEN x1
    ELSE Then([x1 EXCEPT !.hostent.name = x1.ret], LAMBDA x2 :
    Then(WriteStrs(x2, self.aliases), LAMBDA x3 :
    IF Panicked(x3) THEN x3
    ELSE LET addr_len == AddrLen(self.addresses.family)
             count == Len(self.addresses.addrs)
             ptr_size == PtrSize
         IN  Then([x3 EXCEPT !.hostent.h_aliases = x3.ret,
                             !.hostent.h_addrtype = AddrTypeOf(self.addresses.family),
                             !.hostent.h_length = addr_len], LAMBDA x4 :
             Then(AddrLoop(x4, self.addresses, 1, x4.buffer.pos + count * addr_len,
                           addr_len), LAMBDA x5 :
             IF Panicked(x5) THEN x5
             ELSE Then(Reserve(x5, ptr_size * ArraySlots(count)), LAMBDA x6 :
                  IF Panicked(x6) THEN x6
                  ELSE [x6 EXCEPT !.hostent.h_addr_list = x6.ret,
                                  !.mem = Memset(@, x6.ret + count * ptr_size, 0, 1)]))))))

ToCHostent(self, x) ==
    Then(WriteStr(x, self.name), LAMBDA x1 :
    IF Panicked(x1) THEN x1
    ELSE Then([x1 EXCEPT !.hostent.name = x1.ret], LAMBDA x2 :
    Then(WriteStrs(x2, self.aliases), LAMBDA x3 :
    IF Panicked(x3) THEN x3
    ELSE LET addr_len == AddrLen(self.addresses.family)
             count == Len(self.addresses.addrs)
             ptr_size == PtrSize
         IN  Then([x3 EXCEPT !.hostent.h_aliases = x3.ret,
                             !.hostent.h_addrtype = AddrTypeOf(self.addresses.family),
                             !.hostent.h_length = addr_len], LAMBDA x4 :
             Then(Reserve(x4, ptr_size * ArraySlots(count)), LAMBDA x5 :
             IF Panicked(x5) THEN x5
             ELSE LET array_pos == x5.ret
                  IN  Then([x5 EXCEPT !.hostent.h_addr_list = array_pos], LAMBDA x6 :
                      Then(AddrLoop(x6, self.addresses, 1, array_pos, addr_len), LAMBDA x7 :
                      IF Panicked(x7) THEN x7
                      ELSE [x7 EXCEPT !.mem = Memset(@, array_pos + count * ptr_size,
                                                     0, 1)])))))))

\* What every entry point does with the record it found:
\* CBuffer::new(buf, buflen); buffer.clear(); entry.to_c_hostent(result, &mut buffer)
MarshalInto(entry, result, ptr, len, m) ==
    Then([buffer |-> CBufferNew(ptr, len), mem |-> m,
          hostent |-> result, ret |-> 0, panic |-> ""], LAMBDA x0 :
    Then(Clear(x0), LAMBDA x1 : ToCHostent(entry, x1)))

----------------------------------------------------------------------------
(* State *)

VARIABLES
    rec,        \* marshalling: the Host record handed to the marshaller
    buf,        \* the caller's buffer pointer
    buflen,     \* the buffer length the caller declares
    mem,        \* the caller's memory: the buffer and the RedZone bytes after it
    hostent,    \* the caller's header structure (CHost)
    mstatus,    \* "idle", "ok", "scribbled" or the panic message of the last pass
    passes,     \* marshalling passes made so far
    snap,       \* memory and header as the first successful pass left them
    items,      \* HOST_ITERATOR: Iterator.items, an Option<VecDeque<Host>>
    lock,       \* the Mutex around it: the thread that holds it, 0 when free
    poisoned,   \* the Mutex's poison flag
    aborted,    \* the process was aborted by a panic
    pc,         \* per thread: "idle", "waiting" (inside a call, blocked in lock()),
                \* "held" (inside a call, lock held), "dead"
    op,         \* per thread: the call in progress
    phase,      \* per thread: "free" (calls in any order), or its place in the
                \* protocol: "start", "enum" after its sethostent
    ret,        \* per thread: the last call that returned and its status
    panicMsg,   \* per thread: the message of the panic that ended it, "" if none
    tmem,       \* per thread: its buffer memory
    thostent,   \* per thread: its header structure
    opened,     \* history: the list given to the latest open, << >> after a close
    log,        \* history: the results of next() since the latest open or close
    acq,        \* history: gethostent_r lock acquisitions since then
    discarded,  \* history: some open or close dropped queued records
    closes,     \* history: endhostent calls since the latest open, 2 for two or more
    call,       \* lookups: the last lookup call, its arguments, hook calls and result
    calls,      \* lookups: calls made so far
    buffer,     \* arena: the CBuffer a caller drives call by call
    ops         \* arena history: the calls made on it, with what each returned

marshalVars == << rec, buf, buflen, mem, hostent, mstatus, passes, snap >>

cursorVars ==
    << items, lock, poisoned, aborted, pc, op, phase, ret, panicMsg,
       tmem, thostent, opened, log, acq, discarded, closes >>

lookupVars == << call, calls >>

arenaVars == << buffer, ops >>

vars == << marshalVars, cursorVars, lookupVars, arenaVars >>

PanicMessages ==
    {"Failed to convert string", "Not enough free space in buffer",
     "Iterator not currently open", "PoisonError"}

\* A header whose five fields all hold v (what the caller left in it).
HeaderOf(v) ==
    [name |-> v, h_aliases |-> v, h_addrtype |-> v, h_length |-> v, h_addr_list |-> v]

\* Bytes a caller's memory holds before a call.
FillBytes == {0, 170, 255}

\* A caller region of len buffer bytes, all fill, followed by the red zone,
\* whose bytes hold 205.
Region(ptr, len, fill) ==
    [a \in ptr..(ptr + len + RedZone - 1) |-> IF a < ptr + len THEN fill ELSE 205]

----------------------------------------------------------------------------
(* The records drawn for the marshaller *)

TextChars == {0, 97}

Texts == UNION {[1..n -> TextChars] : n \in 0..MaxTextLen}

\* k aliases: the stem followed by a letter of its own for each alias.
AliasList(stem, k) == [i \in 1..k |-> stem \o << 97 + i >>]

\* The i-th IPv4 address 127.0.i.(200+i) and the i-th IPv6 address.
SampleV4(i) == 2130706432 + 256 * i + 200 + i

SampleV6(i) == [j \in 1..8 |-> (8193 * j + 4660 * i) % 65536]

AddressList(family, n) ==
    [family |-> family,
     addrs |-> [i \in 1..n |-> IF family = "V4" THEN SampleV4(i) ELSE SampleV6(i)]]

MarshalHosts ==
    {[name |-> nm, aliases |-> AliasList(stem, k), addresses |-> AddressList(f, n)] :
        nm \in Texts, stem \in Texts, k \in 0..MaxAliases,
        f \in {"V4", "V6"}, n \in 0..MaxAddrs}

RECURSIVE SumTextSpans(_, _)
SumTextSpans(texts, i) ==
    IF i > Len(texts) THEN 0 ELSE Len(texts[i]) + 1 + SumTextSpans(texts, i + 1)

\* M: the bytes a record takes in the arena.
MinSize(h) ==
    (Len(h.name) + 1) + PtrSize * (Len(h.aliases) + 1) + SumTextSpans(h.aliases, 1)
    + PtrSize * (Len(h.addresses.addrs) + 1)
    + Len(h.addresses.addrs) * (IF h.addresses.family = "V4" THEN 4 ELSE 16)

HasNulText(h) == HasNul(h.name) \/ \E i \in DOMAIN h.aliases : HasNul(h.aliases[i])

----------------------------------------------------------------------------
(* Iterator<T> *)

None == [some |-> FALSE, val |-> << >>]

Some(v) == [some |-> TRUE, val |-> v]

NoHost ==
    [name |-> << >>, aliases |-> << >>, addresses |-> [family |-> "V4", addrs |-> << >>]]

\* Iterator::new
ItNew == [items |-> None]

\* Iterator::open
ItOpen(it, list) == [it EXCEPT !.items = Some(list)]

ItNextPeeks(it) ==
    IF ~it.items.some THEN [it |-> it, ret |-> None, panic |-> "Iterator not currently open"]
    ELSE IF it.items.val = << >> THEN [it |-> it, ret |-> None, panic |-> ""]
    ELSE [it |-> it, ret |-> Some(Head(it.items.val)), panic |-> ""]

ItNextFromBack(it) ==
    IF ~it.items.some THEN [it |-> it, ret |-> None, panic |-> "Iterator not currently open"]
    ELSE IF it.items.val = << >> THEN [it |-> it, ret |-> None, panic |-> ""]
    ELSE [it |-> [it EXCEPT !.items.val = SubSeq(@, 1, Len(@) - 1)],
          ret |-> Some(it.items.val[Len(it.items.val)]), panic |-> ""]

ItNextClosesWhenEmpty(it) ==
    IF ~it.items.some THEN [it |-> it, ret |-> None, panic |-> "Iterator not currently open"]
    ELSE IF it.items.val = << >> THEN [it |-> [it EXCEPT !.items = None], ret |-> None, panic |-> ""]
    ELSE [it |-> [it EXCEPT !.items.val = Tail(@)],
          ret |-> Some(Head(it.items.val)), panic |-> ""]

\* Iterator::next: the cursor after the call, the Option<T> returned, the panic
ItNext(it) ==
    IF ~it.items.some THEN [it |-> it, ret |-> None, panic |-> "Iterator not currently open"]
    ELSE IF it.items.val = << >> THEN [it |-> it, ret |-> None, panic |-> ""]
    ELSE [it |-> [it EXCEPT !.items.val = Tail(@)],
          ret |-> Some(Head(it.items.val)), panic |-> ""]

ItCloseKeepsQueue(it) == it

ItCloseLeavesOpen(it) == [it EXCEPT !.items = Some(<< >>)]

\* Iterator::close
ItClose(it) == [it EXCEPT !.items = None]

----------------------------------------------------------------------------
(* The host database behind HostHooks and the threads of the process *)

\* The threads of the embedding process that use the host cursor: two call sites.
Threads == {1, 2}

HostA ==
    [name |-> << 97 >>, aliases |-> << >>, addresses |-> AddressList("V4", 1)]

HostB ==
    [name |-> << 98 >>, aliases |-> << << 98, 98 >> >>, addresses |-> AddressList("V6", 0)]

DbHosts == {HostA, HostB}

\* What HostHooks::get_all_entries may return.
AllEntries == UNION {[1..n -> DbHosts] : n \in 0..MaxEntries}

\* The buffer lengths a thread hands to gethostent_r: one byte short of HostA, roomy.
EnumBufLens == {MinSize(HostA) - 1, EnumBufLen}

\* The buffer of thread t.
ThreadBuf(t) == BufAddr + 256 * t

CursorIdle ==
    /\ items = ItNew.items
    /\ lock = 0
    /\ poisoned = FALSE
    /\ aborted = FALSE
    /\ pc = [t \in Threads |-> "idle"]
    /\ op = [t \in Threads |-> [fn |-> "none", ticket |-> 0]]
    /\ ret = [t \in Threads |-> [fn |-> "none", code |-> 0]]
    /\ panicMsg = [t \in Threads |-> ""]
    /\ tmem = [t \in Threads |-> Region(ThreadBuf(t), EnumBufLen, 170)]
    /\ thostent = [t \in Threads |-> HeaderOf(0)]
    /\ opened = << >>
    /\ log = << >>
    /\ acq = 0
    /\ discarded = FALSE
    /\ closes = 0

LookupIdle ==
    /\ call = [fn |-> "none", len |-> 0, format |-> 0, name |-> << >>, buflen |-> 0,
               hooks |-> << >>, codes |-> {}]
    /\ calls = 0

ArenaIdle ==
    /\ buffer = CBufferNew(BufAddr, 0)
    /\ ops = << >>

MarshalIdle ==
    /\ rec = NoHost
    /\ buf = BufAddr
    /\ buflen = 0
    /\ mem = Region(BufAddr, 0, 0)
    /\ hostent = HeaderOf(0)
    /\ mstatus = "idle"
    /\ passes = 0
    /\ snap = [taken |-> FALSE, mem |-> mem, hostent |-> hostent]

\* The calls open to a thread in a phase: any for a free thread, else what the
\* protocol sethostent, gethostent_r*, endhostent allows next.
Allowed(ph, fn) ==
    CASE ph = "free" -> TRUE
      [] ph = "start" -> fn = "sethostent"
      [] ph = "enum" -> fn \in {"gethostent_r", "endhostent"}

\* The phase of a thread after its call fn returned.
NextPhase(ph, fn) ==
    IF ph = "free" THEN "free" ELSE IF fn = "sethostent" THEN "enum" ELSE "start"

MutexAlwaysAvailable == TRUE

\* Mutex::lock blocks while another thread holds the guard.
MutexAvailable == lock = 0

\* A panic inside an exported function.  It either aborts the process or unwinds
\* out of the function: the thread is lost and the MutexGuard it held, dropped
\* while panicking, poisons the Mutex.
FatalKeepsGuard(t, msg, holding) ==
    /\ panicMsg' = [panicMsg EXCEPT ![t] = msg]
    /\ pc' = [pc EXCEPT ![t] = "dead"]
    /\ \/ /\ aborted' = TRUE
          /\ UNCHANGED << lock, poisoned >>
       \/ /\ aborted' = FALSE
          /\ UNCHANGED << lock, poisoned >>

Fatal(t, msg, holding) ==
    /\ panicMsg' = [panicMsg EXCEPT ![t] = msg]
    /\ pc' = [pc EXCEPT ![t] = "dead"]
    /\ \/ /\ aborted' = TRUE
          /\ UNCHANGED << lock, poisoned >>
       \/ /\ aborted' = FALSE
          /\ lock' = IF holding THEN 0 ELSE lock
          /\ poisoned' = (poisoned \/ holding)

\* Thread t can take the lock for fn: it calls fn now, or is blocked inside fn.
AtLock(t, fn) == pc[t] = "idle" \/ (pc[t] = "waiting" /\ op[t].fn = fn)

\* A thread enters fn and takes the lock: HOST_ITERATOR.lock().unwrap()
Lock(t, fn) ==
    /\ ~aborted
    /\ AtLock(t, fn)
    /\ Allowed(phase[t], fn)
    /\ fn = "gethostent_r" => acq < MaxNexts
    /\ MutexAvailable
    /\ ~poisoned
    /\ lock' = t
    /\ pc' = [pc EXCEPT ![t] = "held"]
    /\ acq' = IF fn = "gethostent_r" THEN acq + 1 ELSE acq
    /\ op' = [op EXCEPT ![t] = [fn |-> fn,
                                ticket |-> IF fn = "gethostent_r" THEN acq + 1 ELSE 0]]
    /\ UNCHANGED << items, poisoned, aborted, phase, ret, panicMsg, tmem,
                    thostent, opened, log, discarded, closes >>
    /\ UNCHANGED marshalVars
    /\ UNCHANGED lookupVars
    /\ UNCHANGED arenaVars

\* lock() on a poisoned Mutex returns Err and unwrap() panics.
LockPoisoned(t, fn) ==
    /\ ~aborted
    /\ AtLock(t, fn)
    /\ Allowed(phase[t], fn)
    /\ MutexAvailable
    /\ poisoned
    /\ Fatal(t, "PoisonError", FALSE)
    /\ UNCHANGED << items, op, phase, ret, tmem, thostent, opened, log, acq,
                    discarded, closes >>
    /\ UNCHANGED marshalVars
    /\ UNCHANGED lookupVars
    /\ UNCHANGED arenaVars

\* The guard is dropped and the call returns status.
Return(t, status) ==
    /\ lock' = 0
    /\ pc' = [pc EXCEPT ![t] = "idle"]
    /\ ret' = [ret EXCEPT ![t] = [fn |-> op[t].fn, code |-> NssStatusToC(status)]]
    /\ UNCHANGED << poisoned, aborted, panicMsg >>

\* _nss_*_sethostent, get_all_entries returning entries
SetHostEnt(t, entries) ==
    /\ ~aborted
    /\ pc[t] = "held"
    /\ op[t].fn = "sethostent"
    /\ items' = ItOpen([items |-> items], entries).items
    /\ opened' = entries
    /\ log' = << >>
    /\ acq' = 0
    /\ discarded' = (discarded \/ (items.some /\ items.val # << >>))
    /\ closes' = 0
    /\ phase' = [phase EXCEPT ![t] = NextPhase(@, "sethostent")]
    /\ Return(t, "Success")
    /\ UNCHANGED << op, tmem, thostent >>
    /\ UNCHANGED marshalVars
    /\ UNCHANGED lookupVars
    /\ UNCHANGED arenaVars

\* _nss_*_endhostent
EndHostEnt(t) ==
    /\ ~aborted
    /\ pc[t] = "held"
    /\ op[t].fn = "endhostent"
    /\ items' = ItClose([items |-> items]).items
    /\ opened' = << >>
    /\ log' = << >>
    /\ acq' = 0
    /\ discarded' = (discarded \/ (items.some /\ items.val # << >>))
    /\ closes' = IF closes < 2 THEN closes + 1 ELSE closes
    /\ phase' = [phase EXCEPT ![t] = NextPhase(@, "endhostent")]
    /\ Return(t, "Success")
    /\ UNCHANGED << op, tmem, thostent >>
    /\ UNCHANGED marshalVars
    /\ UNCHANGED lookupVars
    /\ UNCHANGED arenaVars

\* The history entry of one next(): the calling thread, its place among the
\* lock acquisitions, the Option<Host> it got, and how gethostent_r ended (the
\* status and the c_int returned, or the panic message and no c_int).
LogEntry(t, r, status) ==
    [t |-> t, ticket |-> op[t].ticket, some |-> r.ret.some,
     rec |-> IF r.ret.some THEN r.ret.val ELSE NoHost, status |-> status,
     codes |-> IF status \in PanicMessages THEN {} ELSE {NssStatusToC(status)}]

\* _nss_*_gethostent_r, called with a buffer of len bytes
GetHostEnt(t, len) ==
    /\ ~aborted
    /\ pc[t] = "held"
    /\ op[t].fn = "gethostent_r"
    /\ \E r \in {ItNext([items |-> items])} :
          /\ items' = r.it.items
          /\ IF r.panic # ""
             THEN /\ Fatal(t, r.panic, TRUE)
                  /\ UNCHANGED << ret, tmem, thostent, log >>
             ELSE IF ~r.ret.some
             THEN /\ Return(t, "NotFound")
                  /\ log' = Append(log, LogEntry(t, r, "NotFound"))
                  /\ UNCHANGED << tmem, thostent >>
             ELSE \E x \in {MarshalInto(r.ret.val, thostent[t], ThreadBuf(t),
                                        len, tmem[t])} :
                  /\ tmem' = [tmem EXCEPT ![t] = x.mem]
                  /\ thostent' = [thostent EXCEPT ![t] = x.hostent]
                  /\ IF Panicked(x)
                     THEN /\ Fatal(t, x.panic, TRUE)
                          /\ log' = Append(log, LogEntry(t, r, x.panic))
                          /\ UNCHANGED ret
                     ELSE /\ Return(t, "Success")
                          /\ log' = Append(log, LogEntry(t, r, "Success"))
    /\ UNCHANGED << op, phase, opened, acq, discarded, closes >>
    /\ UNCHANGED marshalVars
    /\ UNCHANGED lookupVars
    /\ UNCHANGED arenaVars

CursorNext ==
    \/ \E t \in Threads, fn \in {"sethostent", "gethostent_r", "endhostent"} : Lock(t, fn)
    \/ \E t \in Threads, fn \in {"sethostent", "gethostent_r", "endhostent"} :
          LockPoisoned(t, fn)
    \/ \E t \in Threads, entries \in AllEntries : SetHostEnt(t, entries)
    \/ \E t \in Threads, len \in EnumBufLens : GetHostEnt(t, len)
    \/ \E t \in Threads : EndHostEnt(t)

\* Threads call the three enumeration functions in any order.
Init ==
    /\ MarshalIdle /\ CursorIdle /\ LookupIdle /\ ArenaIdle
    /\ phase = [t \in Threads |-> "free"]

Next == CursorNext

Spec == Init /\ [][Next]_vars

\* The same calls with the wait for the lock made visible: a thread enters fn
\* and blocks in lock() until the Mutex lets it through.
Enter(t, fn) ==
    /\ ~aborted
    /\ pc[t] = "idle"
    /\ Allowed(phase[t], fn)
    /\ fn = "gethostent_r" =>
          acq + Cardinality({u \in Threads : pc[u] = "waiting" /\ op[u].fn = fn}) < MaxNexts
    /\ pc' = [pc EXCEPT ![t] = "waiting"]
    /\ op' = [op EXCEPT ![t] = [fn |-> fn, ticket |-> 0]]
    /\ UNCHANGED << items, lock, poisoned, aborted, phase, ret, panicMsg, tmem,
                    thostent, opened, log, acq, discarded, closes >>
    /\ UNCHANGED marshalVars
    /\ UNCHANGED lookupVars
    /\ UNCHANGED arenaVars

\* lock().unwrap() of a blocked thread gets through: it holds the guard, or the
\* Mutex is poisoned and unwrap panics.
Acquire(t) ==
    /\ pc[t] = "waiting"
    /\ Lock(t, op[t].fn) \/ LockPoisoned(t, op[t].fn)

\* What get_all_entries returns in the runs that show the waiting: no record,
\* or one.
FairEntries == {<< >>, << HostA >>}

\* The body of the call thread t is in, from lock() to the return or the panic.
Finish(t) ==
    \/ \E entries \in FairEntries : SetHostEnt(t, entries)
    \/ \E len \in EnumBufLens : GetHostEnt(t, len)
    \/ EndHostEnt(t)

FairNext ==
    \/ \E t \in Threads, fn \in {"sethostent", "gethostent_r", "endhostent"} : Enter(t, fn)
    \/ \E t \in Threads : Acquire(t)
    \/ \E t \in Threads : Finish(t)

\* Fair scheduling: a thread inside a call body keeps running, and a thread
\* blocked in lock() gets the Mutex if it is free again and again.
Fairness == \A t \in Threads : WF_vars(Finish(t)) /\ SF_vars(Acquire(t))

SpecFair == Init /\ [][FairNext]_vars /\ Fairness

\* A record whose alias holds a NUL byte.
HostNul ==
    [name |-> << 99 >>, aliases |-> << << 99, 0, 99 >> >>, addresses |-> AddressList("V4", 0)]

\* What get_all_entries returns in the runs that show a marshalling failure: a
\* record that fits no small buffer, or one with a NUL byte, and one more.
FatalEntries == {<< HostA, HostB >>, << HostNul, HostB >>}

FatalNext ==
    \/ \E t \in Threads, fn \in {"sethostent", "gethostent_r", "endhostent"} : Lock(t, fn)
    \/ \E t \in Threads, fn \in {"sethostent", "gethostent_r", "endhostent"} :
          LockPoisoned(t, fn)
    \/ \E t \in Threads, entries \in FatalEntries : SetHostEnt(t, entries)
    \/ \E t \in Threads, len \in EnumBufLens : GetHostEnt(t, len)
    \/ \E t \in Threads : EndHostEnt(t)

SpecFatal == Init /\ [][FatalNext]_vars

\* Every thread follows the protocol sethostent, gethostent_r*, endhostent.
ProtocolInit ==
    /\ MarshalIdle /\ CursorIdle /\ LookupIdle /\ ArenaIdle
    /\ phase = [t \in Threads |-> "start"]

SpecProtocol == ProtocolInit /\ [][Next]_vars

----------------------------------------------------------------------------
(* The lookup entry points, called by one caller that reuses its buffer *)

\* The raw address memory a caller points gethostbyaddr_r at (16 readable bytes).
AddrInputs == {Ipv6Octets(SampleV6(1)), Ipv4Octets(SampleV4(1)) \o Ipv6Octets(SampleV6(2))}

AddrKindByLengthOnly(len, format) ==
    IF len = 4 THEN "V4" ELSE IF len = 16 THEN "V6" ELSE "mismatch"

\* match (len, format) of gethostbyaddr_r
AddrKind(len, format) ==
    IF len = 4 /\ format = AF_INET THEN "V4"
    ELSE IF len = 16 /\ format = AF_INET6 THEN "V6"
    ELSE "mismatch"

\* What HostHooks::get_host_by_addr and get_host_by_name may return.
HookResults == {[some |-> FALSE, val |-> NoHost]} \cup {[some |-> TRUE, val |-> h] : h \in DbHosts}

LookupInit ==
    /\ rec = NoHost
    /\ buf = BufAddr
    /\ buflen = EnumBufLen
    /\ \E fill \in {0, 170} : mem = Region(buf, buflen, fill)
    /\ hostent = HeaderOf(0)
    /\ mstatus = "idle"
    /\ passes = 0
    /\ snap = [taken |-> FALSE, mem |-> mem, hostent |-> hostent]
    /\ CursorIdle
    /\ phase = [t \in Threads |-> "free"]
    /\ LookupIdle
    /\ ArenaIdle

\* The arguments of a lookup call, as the history keeps them.
CallOf(fn, len, format, name, blen) ==
    [fn |-> fn, len |-> len, format |-> format, name |-> name, buflen |-> blen]

\* One hook call: the hook, its argument and the Option<Host> it returned.
HookCall(hook, arg, found) == [hook |-> hook, arg |-> arg, result |-> found]

NoRecord == [some |-> FALSE, val |-> NoHost]

\* Some(val) => { CBuffer::new; clear; to_c_hostent; Success }, None => NotFound
\* (and the early return NssStatus::NotFound.to_c(), with no hook called)
RespondClearsFirst(c, hooks, found) ==
    \E x \in {MarshalInto(found.val, hostent, buf, c.buflen, mem)} :
    \E x0 \in {Clear([x EXCEPT !.mem = mem])} :
    IF ~found.some
    THEN /\ call' = [fn |-> c.fn, len |-> c.len, format |-> c.format, name |-> c.name,
                     buflen |-> c.buflen, hooks |-> hooks,
                     codes |-> {NssStatusToC("NotFound")}]
         /\ mstatus' = "notfound"
         /\ mem' = x0.mem
         /\ UNCHANGED << hostent, rec >>
    ELSE /\ mem' = x.mem
         /\ hostent' = x.hostent
         /\ rec' = found.val
         /\ mstatus' = IF Panicked(x) THEN x.panic ELSE "ok"
         /\ call' = [fn |-> c.fn, len |-> c.len, format |-> c.format, name |-> c.name,
                     buflen |-> c.buflen, hooks |-> hooks,
                     codes |-> IF Panicked(x) THEN {} ELSE {NssStatusToC("Success")}]

Respond(c, hooks, found) ==
    IF ~found.some
    THEN /\ call' = [fn |-> c.fn, len |-> c.len, format |-> c.format, name |-> c.name,
                     buflen |-> c.buflen, hooks |-> hooks,
                     codes |-> {NssStatusToC("NotFound")}]
         /\ mstatus' = "notfound"
         /\ UNCHANGED << mem, hostent, rec >>
    ELSE \E x \in {MarshalInto(found.val, hostent, buf, c.buflen, mem)} :
         /\ mem' = x.mem
         /\ hostent' = x.hostent
         /\ rec' = found.val
         /\ mstatus' = IF Panicked(x) THEN x.panic ELSE "ok"
         /\ call' = [fn |-> c.fn, len |-> c.len, format |-> c.format, name |-> c.name,
                     buflen |-> c.buflen, hooks |-> hooks,
                     codes |-> IF Panicked(x) THEN {} ELSE {NssStatusToC("Success")}]

\* _nss_*_gethostbyaddr_r
GetHostByAddr(addr, len, format, blen) ==
    /\ ~aborted
    /\ calls < MaxCalls
    /\ mstatus \notin PanicMessages
    /\ calls' = calls + 1
    /\ LET kind == AddrKind(len, format)
           a == IF kind = "V4" THEN [family |-> "V4", addr |-> Ipv4From(SubSeq(addr, 1, 4))]
                ELSE [family |-> "V6", addr |-> Ipv6From(SubSeq(addr, 1, 16))]
           c == CallOf("gethostbyaddr_r", len, format, << >>, blen)
       IN  IF kind = "mismatch"
           THEN Respond(c, << >>, NoRecord)
           ELSE \E found \in HookResults :
                  Respond(c, << HookCall("get_host_by_addr", a, found) >>, found)
    /\ UNCHANGED << buf, buflen, passes, snap >>
    /\ UNCHANGED cursorVars
    /\ UNCHANGED arenaVars

\* The C strings a caller points gethostbyname2_r at, each with its terminator
\* and the byte that follows it in memory: "a", "\xC3\xA9" (e acute), "a\xFF",
\* "\xC3" (a sequence cut short) and "\xED\xA0\x80" (a surrogate).
NameInputs ==
    {<< 97, 0, 97 >>, << 195, 169, 0, 97 >>, << 97, 255, 0, 97 >>, << 195, 0, 97 >>,
     << 237, 160, 128, 0, 97 >>}

\* CStr::from_ptr(name).to_bytes(): the bytes before the first NUL
CStrToBytes(cstr) == SubSeq(cstr, 1, StrLen(cstr))

\* A UTF-8 continuation byte.
IsCont(b) == b >= 128 /\ b <= 191

\* str::from_utf8(bytes).is_ok(), from byte i on
RECURSIVE Utf8ValidFrom(_, _)
Utf8ValidFrom(bytes, i) ==
    IF i > Len(bytes) THEN TRUE
    ELSE LET b == bytes[i]
             \* the bytes that follow b, 0 standing for a missing one
             n1 == IF i + 1 <= Len(bytes) THEN bytes[i + 1] ELSE 0
             n2 == IF i + 2 <= Len(bytes) THEN bytes[i + 2] ELSE 0
             n3 == IF i + 3 <= Len(bytes) THEN bytes[i + 3] ELSE 0
         IN  IF b < 128 THEN Utf8ValidFrom(bytes, i + 1)
             ELSE IF b >= 194 /\ b <= 223
                  THEN IsCont(n1) /\ Utf8ValidFrom(bytes, i + 2)
             ELSE IF b >= 224 /\ b <= 239
                  THEN /\ IF b = 224 THEN n1 >= 160 /\ n1 <= 191
                          ELSE IF b = 237 THEN n1 >= 128 /\ n1 <= 159
                          ELSE IsCont(n1)
                       /\ IsCont(n2)
                       /\ Utf8ValidFrom(bytes, i + 3)
             ELSE IF b >= 240 /\ b <= 244
                  THEN /\ IF b = 240 THEN n1 >= 144 /\ n1 <= 191
                          ELSE IF b = 244 THEN n1 >= 128 /\ n1 <= 143
                          ELSE IsCont(n1)
                       /\ IsCont(n2)
                       /\ IsCont(n3)
                       /\ Utf8ValidFrom(bytes, i + 4)
             ELSE FALSE

Utf8Valid(bytes) == Utf8ValidFrom(bytes, 1)

\* The family values a caller passes: the three the code knows and AF_UNIX.
NameFamilies == {AF_UNSPEC, AF_INET, AF_INET6, 1}

UnspecOrderV6First == << "IPv6", "IPv4" >>

\* AF_UNSPEC: the AddressFamily of the first lookup and of the one made if it
\* returns None
UnspecOrder == << "IPv4", "IPv6" >>

\* super::$hooks_ident::get_host_by_name(&name.to_string(), family)
ByName(name, family, found) ==
    HookCall("get_host_by_name", [family |-> family, name |-> name], found)

\* _nss_*_gethostbyname2_r
GetHostByName2(name, family, blen) ==
    /\ ~aborted
    /\ calls < MaxCalls
    /\ mstatus \notin PanicMessages
    /\ calls' = calls + 1
    /\ LET bytes == CStrToBytes(name)
           c == CallOf("gethostbyname2_r", 0, family, bytes, blen)
       IN  IF ~Utf8Valid(bytes) THEN Respond(c, << >>, NoRecord)
           ELSE IF family = AF_INET
           THEN \E found \in HookResults : Respond(c, << ByName(bytes, "IPv4", found) >>, found)
           ELSE IF family = AF_INET6
           THEN \E found \in HookResults : Respond(c, << ByName(bytes, "IPv6", found) >>, found)
           ELSE IF family = AF_UNSPEC
           THEN \E first \in HookResults :
                   IF first.some
                   THEN Respond(c, << ByName(bytes, UnspecOrder[1], first) >>, first)
                   ELSE \E second \in HookResults :
                           Respond(c, << ByName(bytes, UnspecOrder[1], first),
                                         ByName(bytes, UnspecOrder[2], second) >>, second)
           ELSE Respond(c, << >>, NoRecord)
    /\ UNCHANGED << buf, buflen, passes, snap >>
    /\ UNCHANGED cursorVars
    /\ UNCHANGED arenaVars

\* _nss_*_gethostbyname_r
GetHostByName(name, blen) == GetHostByName2(name, AF_UNSPEC, blen)

LookupNext ==
    \/ \E addr \in AddrInputs, len \in {0, 4, 16}, format \in {AF_UNSPEC, AF_INET, AF_INET6},
          blen \in EnumBufLens :
           GetHostByAddr(addr, len, format, blen)
    \/ \E name \in NameInputs, family \in NameFamilies, blen \in EnumBufLens :
           GetHostByName2(name, family, blen)
    \/ \E name \in NameInputs, blen \in EnumBufLens : GetHostByName(name, blen)

SpecLookup == LookupInit /\ [][LookupNext]_vars

\* A caller whose one thread enumerates and makes one lookup, a call at a time:
\* it opens the cursor on what get_all_entries returns, no record or one, and
\* calls gethostent_r.
NotFoundEntries == {<< >>, << HostB >>}

NotFoundNext ==
    \/ calls = 0 /\ pc[1] = "idle" /\ LookupNext
    \/ \E fn \in {"sethostent", "gethostent_r"} : mstatus \notin PanicMessages /\ Lock(1, fn)
    \/ \E entries \in NotFoundEntries : SetHostEnt(1, entries)
    \/ \E len \in EnumBufLens : GetHostEnt(1, len)

SpecNotFound == LookupInit /\ [][NotFoundNext]_vars

----------------------------------------------------------------------------
(* Marshalling passes of one caller over one buffer *)

MarshalInit ==
    /\ rec \in MarshalHosts
    /\ buf = BufAddr
    /\ buflen \in {MinSize(rec) - 1, MinSize(rec), MinSize(rec) + Slack}
    /\ \E fill \in FillBytes : mem = Region(buf, buflen, fill)
    /\ \E v \in {0, 48879} : hostent = HeaderOf(v)
    /\ mstatus = "idle"
    /\ passes = 0
    /\ snap = [taken |-> FALSE, mem |-> mem, hostent |-> hostent]
    /\ CursorIdle
    /\ phase = [t \in Threads |-> "free"]
    /\ LookupIdle
    /\ ArenaIdle

\* One pass: bind a fresh CBuffer, clear, to_c_hostent.  A panic ends the caller.
MarshalPass ==
    /\ passes < MaxPasses
    /\ mstatus \notin PanicMessages
    /\ \E x \in {MarshalInto(rec, hostent, buf, buflen, mem)} :
           /\ mem' = x.mem
           /\ hostent' = x.hostent
           /\ mstatus' = IF Panicked(x) THEN x.panic ELSE "ok"
           /\ snap' = IF snap.taken \/ Panicked(x) THEN snap
                      ELSE [taken |-> TRUE, mem |-> x.mem, hostent |-> x.hostent]
    /\ passes' = passes + 1
    /\ UNCHANGED << rec, buf, buflen >>
    /\ UNCHANGED cursorVars
    /\ UNCHANGED lookupVars
    /\ UNCHANGED arenaVars

\* Between two passes the caller, who owns buffer and header, overwrites them.
Scribble ==
    /\ mstatus = "ok"
    /\ passes < MaxPasses
    /\ \E fill \in FillBytes : mem' = Region(buf, buflen, fill)
    /\ \E v \in {0, 48879} : hostent' = HeaderOf(v)
    /\ mstatus' = "scribbled"
    /\ UNCHANGED << rec, buf, buflen, passes, snap >>
    /\ UNCHANGED cursorVars
    /\ UNCHANGED lookupVars
    /\ UNCHANGED arenaVars

MarshalNext == MarshalPass \/ Scribble

SpecMarshal == MarshalInit /\ [][MarshalNext]_vars

----------------------------------------------------------------------------
(* One caller driving a CBuffer call by call: CBuffer::new over its buffer,  *)
(* then clear, reserve, write_str, write_strs and to_c_hostent in any order. *)
(* A panic ends the caller.                                                  *)

\* The buffer lengths a CBuffer is bound to: two bytes, roomy.
ArenaLens == {2, ArenaLen}

\* Lengths passed to reserve.
ReserveLens == {-1, 0, 1, 4, PtrSize}

\* Texts passed to write_str: "", "a", "ab" and "a\0".
ArenaTexts == {<< >>, << 97 >>, << 97, 98 >>, << 97, 0 >>}

\* Lists passed to write_strs.
ArenaLists ==
    {<< >>, << << 97 >> >>, << << 97 >>, << 97, 98 >> >>, << << 97 >>, << 97, 0 >> >>}

ArenaInit ==
    /\ rec = NoHost
    /\ buf = BufAddr
    /\ buflen \in ArenaLens
    /\ \E fill \in {0, 170} : mem = Region(buf, buflen, fill)
    /\ hostent = HeaderOf(0)
    /\ mstatus = "idle"
    /\ passes = 0
    /\ snap = [taken |-> FALSE, mem |-> mem, hostent |-> hostent]
    /\ CursorIdle
    /\ phase = [t \in Threads |-> "free"]
    /\ LookupIdle
    /\ buffer = CBufferNew(buf, buflen)
    /\ ops = << >>

\* The execution state a call on the caller's CBuffer starts from.
ArenaState == [buffer |-> buffer, mem |-> mem, hostent |-> hostent, ret |-> 0, panic |-> ""]

\* The caller's state after a call that ended in x, and its history entry: the
\* call, the pointer it returned, the length n of the span behind that pointer,
\* the text or record it was given, pos as the call found it, and the panic.
ArenaDone(x, name, n, text, host) ==
    /\ Len(ops) < MaxOps
    /\ mstatus \notin PanicMessages
    /\ buffer' = x.buffer
    /\ mem' = x.mem
    /\ hostent' = x.hostent
    /\ mstatus' = IF Panicked(x) THEN x.panic ELSE "ok"
    /\ ops' = Append(ops, [op |-> name, ret |-> x.ret, n |-> n, text |-> text,
                           host |-> host, before |-> buffer.pos, panic |-> x.panic])
    /\ UNCHANGED << rec, buf, buflen, passes, snap >>
    /\ UNCHANGED cursorVars
    /\ UNCHANGED lookupVars

ArenaClear ==
    \E x \in {Clear(ArenaState)} : ArenaDone(x, "clear", 0, << >>, NoHost)

ArenaReserve(len) ==
    \E x \in {Reserve(ArenaState, len)} : ArenaDone(x, "reserve", len, << >>, NoHost)

ArenaWriteStr(string) ==
    \E x \in {WriteStr(ArenaState, string)} :
        ArenaDone(x, "write_str", Len(string) + 1, string, NoHost)

ArenaWriteStrs(strings) ==
    \E x \in {WriteStrs(ArenaState, strings)} :
        ArenaDone(x, "write_strs", PtrSize * (Len(strings) + 1), << >>, NoHost)

ArenaToCHostent(self) ==
    \E x \in {ToCHostent(self, ArenaState)} : ArenaDone(x, "to_c_hostent", 0, << >>, self)

ArenaNext ==
    \/ ArenaClear
    \/ \E len \in ReserveLens : ArenaReserve(len)
    \/ \E string \in ArenaTexts : ArenaWriteStr(string)
    \/ \E strings \in ArenaLists : ArenaWriteStrs(strings)
    \/ \E self \in DbHosts : ArenaToCHostent(self)

SpecArena == ArenaInit /\ [][ArenaNext]_vars

----------------------------------------------------------------------------
(* What a reader of the marshalled record sees *)

\* The pointer held by the slot at addr; -1 for a value beyond 2^31, which is
\* no address of the model.
PtrAt(m, addr) ==
    LET b == LoadBytes(m, addr, PtrSize)
    IN  IF b[4] < 128 /\ \A i \in 5..PtrSize : b[i] = 0
        THEN b[1] + 256 * b[2] + 65536 * b[3] + 16777216 * b[4]
        ELSE -1

\* The len bytes at p lie inside the buffer [buf, buf + buflen).
InBuffer(p, len) == p >= buf /\ p + len <= buf + buflen

ZeroSlot(m, addr) == \A i \in 0..(PtrSize - 1) : m[addr + i] = 0

\* The bytes after the buffer are as the caller left them.
RedZoneIntact == \A a \in (buf + buflen)..(buf + buflen + RedZone - 1) : mem[a] = 205

\* The state right after a marshalling pass (successful or not).
AfterPass == mstatus = "ok" \/ mstatus \in PanicMessages

----------------------------------------------------------------------------
(* Claims on the marshaller, checked under SpecMarshal *)

\* C4: after clear and to_c_hostent succeed on a record with k aliases and n
\* addresses, the alias array has k+1 slots inside the buffer, slot k is zero and
\* slot i < k points inside the buffer at the NUL-terminated bytes of alias i; the
\* address array has n+1 slots inside the buffer, slot n is zero and slot i < n
\* points inside the buffer at the bytes of address i.
C4_ArrayLayout ==
    mstatus = "ok" =>
        LET k == Len(rec.aliases)
            n == Len(rec.addresses.addrs)
            w == IF rec.addresses.family = "V4" THEN 4 ELSE 16
        IN  /\ InBuffer(hostent.h_aliases, PtrSize * (k + 1))
            /\ \A i \in 1..k :
                  LET p == PtrAt(mem, hostent.h_aliases + PtrSize * (i - 1))
                  IN  /\ InBuffer(p, Len(rec.aliases[i]) + 1)
                      /\ LoadBytes(mem, p, Len(rec.aliases[i]) + 1) = rec.aliases[i] \o << 0 >>
            /\ ZeroSlot(mem, hostent.h_aliases + PtrSize * k)
            /\ InBuffer(hostent.h_addr_list, PtrSize * (n + 1))
            /\ \A i \in 1..n :
                  LET p == PtrAt(mem, hostent.h_addr_list + PtrSize * (i - 1))
                  IN  /\ InBuffer(p, w)
                      /\ LoadBytes(mem, p, w) = Octets(rec.addresses.family, rec.addresses.addrs[i])
            /\ ZeroSlot(mem, hostent.h_addr_list + PtrSize * n)

C4_Witness ==
    /\ mstatus = "ok"
    /\ Len(rec.aliases) >= 2
    /\ Len(rec.addresses.addrs) >= 2
    /\ rec.addresses.family = "V6"

\* C5 as stated: for every record, a pass into a buffer of exactly M bytes
\* succeeds, and a pass into M-1 bytes panics with 'Not enough free space in
\* buffer' and leaves the bytes after the buffer alone.
C5_CapacityBoundary_AsStated ==
    AfterPass =>
        /\ buflen = MinSize(rec) => mstatus = "ok"
        /\ buflen = MinSize(rec) - 1 =>
              mstatus = "Not enough free space in buffer" /\ RedZoneIntact

\* C5 amended: the same for every record whose name and aliases hold no NUL
\* byte; whatever the record and the buffer length, no pass writes after the
\* buffer.
C5_CapacityBoundary ==
    AfterPass =>
        /\ RedZoneIntact
        /\ ~HasNulText(rec) =>
              /\ buflen = MinSize(rec) => mstatus = "ok"
              /\ buflen = MinSize(rec) - 1 => mstatus = "Not enough free space in buffer"

C5_Witness ==
    /\ mstatus = "Not enough free space in buffer"
    /\ buflen = MinSize(rec) - 1
    /\ ~HasNulText(rec)
    /\ Len(rec.addresses.addrs) >= 1
    /\ Len(rec.aliases) >= 1

\* C8: every successful pass (bind a fresh CBuffer, clear, marshal the record)
\* leaves the caller's memory and header exactly as the first successful pass
\* left them, whatever they held before each pass.
C8_Repeatable ==
    mstatus = "ok" => mem = snap.mem /\ hostent = snap.hostent

C8_Witness ==
    /\ mstatus = "ok"
    /\ passes >= 2
    /\ Len(rec.aliases) >= 1

\* C9: after a successful pass the header says (AF_INET, 4) for a V4 record and
\* (AF_INET6, 16) for a V6 record, and reading h_length bytes at slot i of the
\* address array as an address of family h_addrtype gives the record's address
\* i, for every i < n.
C9_AddressRoundTrip ==
    mstatus = "ok" =>
        /\ << hostent.h_addrtype, hostent.h_length >> =
              (IF rec.addresses.family = "V4" THEN << AF_INET, 4 >> ELSE << AF_INET6, 16 >>)
        /\ \A i \in 1..Len(rec.addresses.addrs) :
              LET p == PtrAt(mem, hostent.h_addr_list + PtrSize * (i - 1))
                  bytes == LoadBytes(mem, p, hostent.h_length)
              IN  /\ InBuffer(p, hostent.h_length)
                  /\ (IF hostent.h_addrtype = AF_INET THEN Ipv4From(bytes) ELSE Ipv6From(bytes))
                        = rec.addresses.addrs[i]

C9_Witness ==
    /\ mstatus = "ok"
    /\ rec.addresses.family = "V6"
    /\ Len(rec.addresses.addrs) = 2
    /\ hostent.h_length = 16

\* The address of alias i (of address i) as the arrays of the header give it.
AliasAt(i) == PtrAt(mem, hostent.h_aliases + PtrSize * (i - 1))

AddressAt(i) == PtrAt(mem, hostent.h_addr_list + PtrSize * (i - 1))

\* The name, the alias array and the alias texts lie in this order.
NameAndAliasesInOrder ==
    LET k == Len(rec.aliases)
    IN  /\ hostent.name >= buf
        /\ hostent.name + Len(rec.name) + 1 <= hostent.h_aliases
        /\ \A i \in 1..k :
              /\ hostent.h_aliases + PtrSize * (k + 1) <= AliasAt(i)
              /\ i < k => AliasAt(i) + Len(rec.aliases[i]) + 1 <= AliasAt(i + 1)

\* C12 as stated: after a successful pass the arena holds, at increasing
\* offsets, the name, the alias array with its texts, the raw bytes of every
\* address, then the address array: every address's bytes end at or before the
\* first slot of the address array.
C12_LayoutOrder_AsStated ==
    mstatus = "ok" =>
        LET k == Len(rec.aliases)
            n == Len(rec.addresses.addrs)
        IN  /\ NameAndAliasesInOrder
            /\ \A i \in 1..n :
                  /\ hostent.h_aliases + PtrSize * (k + 1) <= AddressAt(i)
                  /\ \A j \in 1..k : AliasAt(j) + Len(rec.aliases[j]) + 1 <= AddressAt(i)
                  /\ AddressAt(i) + hostent.h_length <= hostent.h_addr_list

\* C12 amended: after a successful pass the arena holds, at increasing offsets,
\* the name, the alias array, the alias texts, the address array, then the raw
\* bytes of the addresses in their order: the address array ends at or before
\* the first byte of every address.
C12_LayoutOrder ==
    mstatus = "ok" =>
        LET k == Len(rec.aliases)
            n == Len(rec.addresses.addrs)
        IN  /\ NameAndAliasesInOrder
            /\ hostent.h_aliases + PtrSize * (k + 1) <= hostent.h_addr_list
            /\ \A j \in 1..k : AliasAt(j) + Len(rec.aliases[j]) + 1 <= hostent.h_addr_list
            /\ \A i \in 1..n :
                  /\ hostent.h_addr_list + PtrSize * (n + 1) <= AddressAt(i)
                  /\ i < n => AddressAt(i) + hostent.h_length <= AddressAt(i + 1)
            /\ InBuffer(hostent.h_addr_list, PtrSize * (n + 1) + n * hostent.h_length)

C12_Witness ==
    /\ mstatus = "ok"
    /\ Len(rec.name) >= 1
    /\ Len(rec.aliases) >= 2
    /\ Len(rec.addresses.addrs) >= 2
    /\ AddressAt(1) > hostent.h_addr_list
    /\ AddressAt(2) > AddressAt(1)

----------------------------------------------------------------------------
(* Claims on the arena writer, checked under SpecArena *)

\* The last call on the CBuffer in the history o.
LastOp(o) == o[Len(o)]

\* The history grew by one call in this step.
ArenaStepped == Len(ops') = Len(ops) + 1

\* A call that returned a pointer to a span of its own.
ReturnedSpan(e) == e.op \in {"reserve", "write_str", "write_strs"} /\ e.panic = ""

\* (pos - start) + free = len and 0 <= free <= len
Accounted(b) == (b.pos - b.start) + b.free = b.len /\ 0 <= b.free /\ b.free <= b.len

\* C11: on one CBuffer, whatever calls are made, (pos - start) + free = len
\* and 0 <= free <= len; a successful reserve(n) moves pos up and free down by
\* n, a successful write_str(s) by len(s)+1; the pointer each call returns is
\* pos as the call found it, and the spans returned never overlap.
C11_Accounting ==
    [][ArenaStepped =>
        LET e == LastOp(ops')
        IN  /\ Accounted(buffer)
            /\ Accounted(buffer')
            /\ (e.op \in {"reserve", "write_str"} /\ e.panic = "") =>
                   /\ buffer'.pos = buffer.pos + e.n
                   /\ buffer'.free = buffer.free - e.n
            /\ ReturnedSpan(e) => e.ret = buffer.pos
            /\ \A i, j \in DOMAIN ops' :
                   (i < j /\ ReturnedSpan(ops'[i]) /\ ReturnedSpan(ops'[j])) =>
                      ops'[i].ret + ops'[i].n <= ops'[j].ret]_vars

C11_Witness ==
    /\ Len(ops) = 3
    /\ ops[1].op = "write_str" /\ ops[1].text = << 97, 98 >>
    /\ ops[2].op = "write_strs" /\ ops[2].n = 2 * PtrSize
    /\ ops[3].op = "reserve" /\ ops[3].n = 4
    /\ \A i \in 1..3 : ops[i].panic = ""
    /\ buffer.free = buffer.len - 3 - (2 * PtrSize + 2) - 4

\* C13 as stated: after a successful write_str(s), whatever the buffer held
\* before (cleared or not), the span returned holds the bytes of s followed by
\* a zero byte.
C13_WriteStrTerminates ==
    (Len(ops) > 0 /\ LastOp(ops).op = "write_str" /\ LastOp(ops).panic = "") =>
        LoadBytes(mem, LastOp(ops).ret, Len(LastOp(ops).text) + 1) = LastOp(ops).text \o << 0 >>

\* C14 as stated: after a successful to_c_hostent, whatever the buffer held
\* before (cleared or not), all PtrSize bytes of the slot after the last address
\* pointer are zero, as are those of the slot after the last alias pointer.
C14_SentinelFullWidth ==
    (Len(ops) > 0 /\ LastOp(ops).op = "to_c_hostent" /\ LastOp(ops).panic = "") =>
        LET self == LastOp(ops).host
        IN  /\ ZeroSlot(mem, hostent.h_aliases + PtrSize * Len(self.aliases))
            /\ ZeroSlot(mem, hostent.h_addr_list + PtrSize * Len(self.addresses.addrs))

\* C18: clear zeroes the bytes of the region and changes nothing else: start,
\* pos, free and len, the header and the bytes after the region stay as they
\* were, so a call that follows a clear gets the span at the pos the calls
\* before the clear had reached.
C18_ClearFrame ==
    [][ArenaStepped =>
        /\ LastOp(ops').op = "clear" =>
               /\ buffer' = buffer
               /\ hostent' = hostent
               /\ \A a \in DOMAIN mem :
                      mem'[a] = IF a >= buf /\ a < buf + buflen THEN 0 ELSE mem[a]
        /\ \A i \in DOMAIN ops' :
               (i > 1 /\ ops'[i - 1].op = "clear" /\ ReturnedSpan(ops'[i])) =>
                  /\ ops'[i].ret = ops'[i - 1].before
                  /\ ops'[i].before = ops'[i - 1].before]_vars

C18_Witness ==
    /\ Len(ops) = 3
    /\ ops[1].op = "write_str" /\ ops[1].text = << 97, 98 >> /\ ops[1].panic = ""
    /\ ops[2].op = "clear"
    /\ ops[3].op = "reserve" /\ ops[3].n = 4 /\ ops[3].panic = ""
    /\ ops[3].ret = buf + 3
    /\ buffer.free = buflen - 7
    /\ mem[buf] = 0

----------------------------------------------------------------------------
(* Claims on the enumeration cursor, checked under Spec *)

\* The records of the history entries that carry one, in order.
RECURSIVE Delivered(_, _)
Delivered(l, i) ==
    IF i > Len(l) THEN << >>
    ELSE (IF l[i].some THEN << l[i].rec >> ELSE << >>) \o Delivered(l, i + 1)

\* C1: after open(L), with no open or close in between, the i-th next() returns
\* the i-th record of L for i <= len(L), and every later next() returns None,
\* which gethostent_r returns as NotFound.
C1_EnumerationOrder ==
    \A i \in DOMAIN log :
        IF i <= Len(opened)
        THEN log[i].some /\ log[i].rec = opened[i]
        ELSE ~log[i].some /\ log[i].status = "NotFound" /\ log[i].codes = {0}

C1_Witness ==
    /\ Len(opened) = 2
    /\ opened[1] # opened[2]
    /\ Len(log) = 3
    /\ log[1].status = "Success"
    /\ log[2].status = "Success"
    /\ log[3].status = "NotFound"

\* C2: with several threads calling gethostent_r on the open cursor, the records
\* handed out so far followed by the records still queued are exactly the list
\* that was opened (each record goes to one call, none twice, none dropped, the
\* queue only shrinks), and the i-th thread to acquire the lock gets the i-th
\* result.
C2_ConcurrentNext ==
    /\ items.some => Delivered(log, 1) \o items.val = opened
    /\ \A i \in DOMAIN log : log[i].ticket = i

C2_Witness ==
    /\ opened = << HostA, HostB >>
    /\ Len(log) = 2
    /\ log[1].t # log[2].t
    /\ log[1].rec = HostA /\ log[1].status = "Success"
    /\ log[2].rec = HostB /\ log[2].status = "Success"

\* C3 as stated: when every thread follows sethostent, gethostent_r*,
\* endhostent, no gethostent_r runs next() on a Closed cursor.
C3_OpenBeforeNext ==
    \A t \in Threads : panicMsg[t] # "Iterator not currently open"

\* C6: every record next() returns, and every record still queued, belongs to
\* the list given to the latest open; after a close nothing is queued and
\* nothing is returned.
C6_NoResurfacing ==
    /\ \A i \in DOMAIN log : log[i].some => log[i].rec \in Range(opened)
    /\ Range(items.val) \subseteq Range(opened)

C6_Witness ==
    /\ discarded
    /\ Len(log) >= 1
    /\ log[1].some
    /\ log[1].status = "Success"

\* C10: a gethostent_r that finds the cursor Open with an empty queue returns
\* NotFound, panics nowhere and leaves the cursor Open and empty (so the same
\* holds of the next call, until a close); one that finds it Closed panics with
\* 'Iterator not currently open' and returns nothing.
C10_Exhaustion ==
    [][\A t \in Threads :
         (pc[t] = "held" /\ op[t].fn = "gethostent_r" /\ pc'[t] # "held") =>
            IF items.some /\ items.val = << >>
            THEN /\ items' = items
                 /\ pc'[t] = "idle"
                 /\ ret'[t] = [fn |-> "gethostent_r", code |-> 0]
                 /\ panicMsg'[t] = ""
                 /\ ~aborted'
            ELSE IF ~items.some
            THEN /\ pc'[t] = "dead"
                 /\ panicMsg'[t] = "Iterator not currently open"
                 /\ ret'[t] = ret[t]
                 /\ items' = items
            ELSE TRUE]_vars

C10_Witness ==
    /\ items.some
    /\ items.val = << >>
    /\ Len(opened) = 1
    /\ Len(log) = 3
    /\ log[2].status = "NotFound"
    /\ log[3].status = "NotFound"
    /\ \A t \in Threads : panicMsg[t] = ""

\* C17: an endhostent call, whether it finds the cursor Open (with records
\* queued or none) or Closed (after a close, or never opened), panics nowhere,
\* returns success and leaves the cursor Closed with nothing queued; on a Closed
\* cursor it changes nothing, so a second close leaves what the first left.
C17_CloseIdempotent ==
    [][\A t \in Threads :
         (pc[t] = "held" /\ op[t].fn = "endhostent" /\ pc'[t] # "held") =>
            /\ items' = None
            /\ pc'[t] = "idle"
            /\ ret'[t] = [fn |-> "endhostent", code |-> 1]
            /\ panicMsg'[t] = ""
            /\ ~aborted' /\ ~poisoned'
            /\ lock' = 0
            /\ ~items.some => items' = items]_vars

C17_Witness ==
    /\ closes = 2
    /\ discarded
    /\ items = None
    /\ \A t \in Threads : ret[t] = [fn |-> "endhostent", code |-> 1] /\ pc[t] = "idle"

\* The failures of the marshaller.
MarshalPanics == {"Failed to convert string", "Not enough free space in buffer"}

\* C20: while a thread is inside gethostent_r no step of another thread changes
\* the cursor; a gethostent_r whose marshalling panics (buffer too small,
\* embedded NUL) has taken its record off the queue, which keeps exactly the
\* records after it; the record is not queued again and no later next() returns
\* it: the history ends with the failed call.
C20_PopBeforeMarshal ==
    [][/\ \A t \in Threads :
            (pc[t] = "held" /\ op[t].fn = "gethostent_r") =>
               /\ lock = t
               /\ pc'[t] = "held" => (items' = items /\ log' = log)
               /\ (pc'[t] = "dead" /\ items.some /\ items.val # << >>) =>
                      /\ items' = Some(Tail(items.val))
                      /\ LastOp(log').rec = Head(items.val)
                      /\ LastOp(log').status \in MarshalPanics
                      /\ panicMsg'[t] = LastOp(log').status
        /\ \A i \in DOMAIN log' :
              log'[i].status \in MarshalPanics =>
                 /\ i = Len(log')
                 /\ log'[i].rec = opened'[i]
                 /\ items' = Some(SubSeq(opened', i + 1, Len(opened')))]_vars

C20_Witness ==
    /\ opened = << HostNul, HostB >>
    /\ Len(log) = 1
    /\ log[1].rec = HostNul
    /\ log[1].status = "Failed to convert string"
    /\ items = Some(<< HostB >>)
    /\ poisoned
    /\ \E t \in Threads : panicMsg[t] = "PoisonError"

\* Thread t is inside a call: blocked in lock() or in the body.
InCall(t) == pc[t] \in {"waiting", "held"}

----------------------------------------------------------------------------
(* Claims on the lookup entry points, checked under SpecLookup *)

\* C7: a gethostbyaddr_r whose (length, family) is neither (4, AF_INET) nor
\* (16, AF_INET6) returns NotFound, panics nowhere, calls no hook and leaves
\* the caller's buffer and header as they were.
C7_FamilyMismatch ==
    [][(/\ calls' = calls + 1
        /\ call'.fn = "gethostbyaddr_r"
        /\ << call'.len, call'.format >> \notin {<< 4, AF_INET >>, << 16, AF_INET6 >>})
       => /\ call'.codes = {0}
          /\ call'.hooks = << >>
          /\ mstatus' \notin PanicMessages
          /\ mstatus' # "ok"
          /\ mem' = mem
          /\ hostent' = hostent]_vars

C7_Witness ==
    /\ call.fn = "gethostbyaddr_r"
    /\ call.len = 4
    /\ call.format = AF_INET6
    /\ call.codes = {0}
    /\ call.hooks = << >>

\* This step is a gethostbyname2_r call (made directly or by gethostbyname_r).
NameCallStep == calls' = calls + 1 /\ call'.fn = "gethostbyname2_r"

\* The hook calls of c are get_host_by_name(c.name, f) for the families f of
\* fams, in that order.
ByNameCalls(c, fams) ==
    /\ Len(c.hooks) = Len(fams)
    /\ \A i \in DOMAIN c.hooks :
          /\ c.hooks[i].hook = "get_host_by_name"
          /\ c.hooks[i].arg = [family |-> fams[i], name |-> c.name]

\* The lookups gethostbyname2_r makes for c.format: IPv4 first and IPv6 only
\* after a miss for AF_UNSPEC, the one of the family for AF_INET and AF_INET6,
\* none for another value.
FamilyDispatch(c) ==
    /\ c.format = AF_INET => ByNameCalls(c, << "IPv4" >>)
    /\ c.format = AF_INET6 => ByNameCalls(c, << "IPv6" >>)
    /\ c.format = AF_UNSPEC =>
          \/ ByNameCalls(c, << "IPv4" >>) /\ c.hooks[1].result.some
          \/ ByNameCalls(c, << "IPv4", "IPv6" >>) /\ ~c.hooks[1].result.some
    /\ c.format \notin {AF_UNSPEC, AF_INET, AF_INET6} => c.hooks = << >>

\* What the lookup selected by the dispatch of c returned.
Selected(c) == IF c.hooks = << >> THEN NoRecord ELSE c.hooks[Len(c.hooks)].result

\* The header and the buffer m hold the name and the family of the record h.
Carries(h, m, he) ==
    /\ he.h_addrtype = (IF h.addresses.family = "V4" THEN AF_INET ELSE AF_INET6)
    /\ he.name >= buf /\ he.name + Len(h.name) <= buf + buflen
    /\ LoadBytes(m, he.name, Len(h.name)) = h.name

\* C15 as stated: gethostbyname2_r makes the lookups its family argument
\* selects (AF_UNSPEC: IPv4, then IPv6 only after a miss; AF_INET, AF_INET6:
\* exactly the one of that family; another value: none, not-found), and returns
\* success with the selected lookup's record if it produced one, else
\* not-found.
C15_FamilyDispatch_AsStated ==
    [][NameCallStep =>
        /\ FamilyDispatch(call')
        /\ IF Selected(call').some
           THEN call'.codes = {1} /\ Carries(Selected(call').val, mem', hostent')
           ELSE call'.codes = {0}]_vars

\* C15 amended: the same for a name that is valid UTF-8, where a record that
\* the selected lookup produced is marshalled and the call returns success if
\* the record fits the buffer and its texts hold no NUL byte, and otherwise the
\* call panics and returns nothing; for a name that is not valid UTF-8 the
\* call makes no lookup and returns not-found, whatever the family.
C15_FamilyDispatch ==
    [][NameCallStep =>
        IF Utf8Valid(call'.name)
        THEN /\ FamilyDispatch(call')
             /\ IF ~Selected(call').some THEN call'.codes = {0}
                ELSE IF call'.buflen >= MinSize(Selected(call').val)
                        /\ ~HasNulText(Selected(call').val)
                THEN call'.codes = {1} /\ Carries(Selected(call').val, mem', hostent')
                ELSE call'.codes = {} /\ mstatus' \in PanicMessages
        ELSE call'.hooks = << >> /\ call'.codes = {0}]_vars

\* A lookup call that returns in this step, and a gethostent_r of thread t that does.
LookupStep == calls' = calls + 1

EnumStep(t) == pc[t] = "held" /\ op[t].fn = "gethostent_r" /\ pc'[t] # "held"

\* C19: a call that returns not-found leaves the caller's buffer and header as
\* they were, byte for byte: gethostent_r on an exhausted cursor, gethostbyaddr_r
\* on a mismatch or a miss, gethostbyname2_r on an unsupported family, a
\* non-UTF-8 name or a miss; a call changes buffer or header only where a
\* record was found, the path that ends in success (or in a panic of the
\* marshaller).
C19_NotFoundFrame ==
    [][/\ LookupStep =>
            /\ call'.codes = {0} => (mem' = mem /\ hostent' = hostent)
            /\ (mem' # mem \/ hostent' # hostent) =>
                   (Selected(call').some /\ call'.codes # {0})
            /\ call'.codes = {1} => Selected(call').some
        /\ \A t \in Threads : EnumStep(t) =>
            /\ (pc'[t] = "idle" /\ ret'[t].code = 0) =>
                   (tmem' = tmem /\ thostent' = thostent)
            /\ (tmem' # tmem \/ thostent' # thostent) =>
                   (items.some /\ items.val # << >> /\ LastOp(log').some
                    /\ (pc'[t] = "idle" => ret'[t].code = 1))]_vars

C19_Witness ==
    /\ call.fn = "gethostbyname2_r"
    /\ call.name = << 97, 255 >>
    /\ call.format = AF_INET
    /\ call.codes = {0}
    /\ mem[buf] = 170
    /\ ret[1] = [fn |-> "gethostent_r", code |-> 0]
    /\ Len(log) = 2
    /\ log[1].status = "Success"
    /\ tmem[1][ThreadBuf(1)] = 98

C15_Witness ==
    /\ call.fn = "gethostbyname2_r"
    /\ call.format = AF_UNSPEC
    /\ call.name = << 195, 169 >>
    /\ Len(call.hooks) = 2
    /\ ~call.hooks[1].result.some
    /\ call.hooks[2].arg.family = "IPv6"
    /\ call.hooks[2].result = Some(HostB)
    /\ call.codes = {1}
    /\ hostent.h_addrtype = AF_INET6

====
